---- MODULE Spec2Model ----
(***************************************************************************)
(* Model of the incremental indexing engine of mcp-ace: IndexManager       *)
(* (retryRequest, indexProject, searchContext) and the searchContextTool   *)
(* wrapper.  Every action is one run-to-completion segment of the Node.js  *)
(* event loop: the code between two points where a call waits for the      *)
(* network or for a timer.                                                 *)
(***************************************************************************)
EXTENDS Integers, Sequences, FiniteSets, TLC

VARIABLES
  config,   \* Config: the batch size the process was started with
  env,      \* the environment: concurrent callers, kind of project trees
  store,    \* projects.json: missing, corrupt, or holding a mapping
  calls,    \* call slot -> state of the public operation running in it
  last,     \* project -> summary of the indexing pass that completed last
  nStarted, \* number of public operations invoked so far
  nEnv,     \* number of changes made by the environment so far
  rt,       \* a single retryRequest invocation on an arbitrary request
  pf        \* a single application of a pure step: its input and its result

vars == <<config, env, store, calls, last, nStarted, nEnv, rt, pf>>

(***************************************************************************)
(* Bounds of the model.                                                    *)
(***************************************************************************)
MaxCalls == 2
MaxEnv == 1
MaxRetriesTried == 4
MaxBlobs == 3
MaxStored == 2
MaxChars == 5
MaxLinesTried == 3

(***************************************************************************)
(* Program constants.                                                      *)
(***************************************************************************)
UploadMaxRetries == 3
UploadRetryDelay == 1000
SearchMaxRetries == 3
SearchRetryDelay == 2000
DefaultMaxLinesPerBlob == 800

(***************************************************************************)
(* Sequence helpers.                                                       *)
(***************************************************************************)
Range(s) == {s[i] : i \in 1..Len(s)}

RECURSIVE Concat(_)
Concat(ss) == IF ss = <<>> THEN <<>> ELSE Head(ss) \o Concat(Tail(ss))

Min(a, b) == IF a < b THEN a ELSE b

\* Math.ceil(n / d) for n >= 0, d > 0
Ceil(n, d) == (n + d - 1) \div d

\* Array.prototype.slice(start, end) with 0-based start and exclusive end
Slice(s, start, end) == SubSeq(s, start + 1, end)

(***************************************************************************)
(* Errors a request can be rejected with.  status = 0 stands for an error  *)
(* without an HTTP response.                                               *)
(***************************************************************************)
AxiosErr(code, status) == [axios |-> TRUE, code |-> code, status |-> status]
PlainErr(code) == [axios |-> FALSE, code |-> code, status |-> 0]
NoError == PlainErr("null")

E503 == AxiosErr("ERR_BAD_RESPONSE", 503)
E500 == AxiosErr("ERR_BAD_RESPONSE", 500)
E429 == AxiosErr("ERR_BAD_REQUEST", 429)
E404 == AxiosErr("ERR_BAD_REQUEST", 404)
E400 == AxiosErr("ERR_BAD_REQUEST", 400)
EAborted == AxiosErr("ECONNABORTED", 0)
ETimedOut == AxiosErr("ETIMEDOUT", 0)
ERefused == AxiosErr("ECONNREFUSED", 0)
EReset == AxiosErr("ECONNRESET", 0)
ETypeError == PlainErr("TypeError")

AllErrors ==
  {E503, E500, E429, E404, E400, EAborted, ETimedOut, ERefused, EReset, ETypeError}

\* the errors the remote service answers with in the indexing model
NetErrors == {E503, E404}

(***************************************************************************)
(* retryRequest                                                            *)
(***************************************************************************)
isAxiosError(e) == e.axios

isRetryable(e) ==
  \/ e.code = "ECONNABORTED"
  \/ e.code = "ETIMEDOUT"
  \/ e.code = "ECONNREFUSED"
  \/ e.status = 429
  \/ e.status >= 500

waitTimeLinear(retryDelay, attempt) == retryDelay * (attempt + 1)

waitTime(retryDelay, attempt) == retryDelay * 2^attempt

\* the invocation of retryRequest: the loop is entered and fn is called
retryStart(maxRetries, retryDelay) ==
  [maxRetries |-> maxRetries, retryDelay |-> retryDelay, attempt |-> 0,
   tries |-> IF 0 < maxRetries THEN 1 ELSE 0,
   lastError |-> NoError, waits |-> <<>>,
   st |-> IF 0 < maxRetries THEN "inflight" ELSE "thrown"]

\* fn resolved: its value is returned
retryOnResolve(r) == [r EXCEPT !.st = "returned"]

\* a retry loop that waits and calls fn again after the last attempt too
retryOnRejectOneMore(r, e) ==
  LET r1 == [r EXCEPT !.lastError = e] IN
  IF isAxiosError(e) /\ ~isRetryable(e)
    THEN [r1 EXCEPT !.st = "thrown"]
    ELSE IF r.attempt < r.maxRetries
      THEN [r1 EXCEPT !.st = "waiting",
                      !.waits = Append(@, waitTime(r.retryDelay, r.attempt))]
      ELSE [r1 EXCEPT !.attempt = @ + 1, !.st = "thrown"]

\* fn rejected with e: the catch block of the loop
retryOnReject(r, e) ==
  LET r1 == [r EXCEPT !.lastError = e] IN
  IF isAxiosError(e) /\ ~isRetryable(e)
    THEN [r1 EXCEPT !.st = "thrown"]
    ELSE IF r.attempt < r.maxRetries - 1
      THEN [r1 EXCEPT !.st = "waiting",
                      !.waits = Append(@, waitTime(r.retryDelay, r.attempt))]
      ELSE [r1 EXCEPT !.attempt = @ + 1, !.st = "thrown"]

\* the backoff timer fired: attempt++ and fn is called again
retryOnTimer(r) ==
  [r EXCEPT !.attempt = @ + 1, !.tries = @ + 1, !.st = "inflight"]

NoRetry == [maxRetries |-> 0, retryDelay |-> 0, attempt |-> 0, tries |-> 0,
            lastError |-> NoError, waits |-> <<>>, st |-> "none"]

(***************************************************************************)
(* A retryRequest invocation on its own: every maxRetries and retryDelay   *)
(* of the bounded sets, every sequence of outcomes of fn.                  *)
(***************************************************************************)
RetryCounts == 1..MaxRetriesTried
RetryDelays == {UploadRetryDelay, SearchRetryDelay}

RtIdle == [r |-> NoRetry, errs |-> <<>>]
PfIdle == [fn |-> "none", done |-> FALSE]

RetryFnRejects(e) ==
  /\ rt.r.st = "inflight"
  /\ rt' = [r |-> retryOnReject(rt.r, e), errs |-> Append(rt.errs, e)]
  /\ UNCHANGED <<config, env, store, calls, last, nStarted, nEnv, pf>>

RetryFnResolves ==
  /\ rt.r.st = "inflight"
  /\ rt' = [rt EXCEPT !.r = retryOnResolve(rt.r)]
  /\ UNCHANGED <<config, env, store, calls, last, nStarted, nEnv, pf>>

RetryTimerFires ==
  /\ rt.r.st = "waiting"
  /\ rt' = [rt EXCEPT !.r = retryOnTimer(rt.r)]
  /\ UNCHANGED <<config, env, store, calls, last, nStarted, nEnv, pf>>


(***************************************************************************)
(* Projects, files and the content hash.                                   *)
(***************************************************************************)
Projects == {"p1", "p2"}
\* one slot for each caller that can have an operation running
SlotIds == {1, 2}
Slots == DOMAIN calls
BatchSizes == {1, 2}

\* a file or a blob: its path, a string, and its content, the sequence of
\* its characters
File(p, c) == [path |-> p, content |-> c]

NL == "\n"

\* the string of a sequence of characters
RECURSIVE Str(_)
Str(cs) == IF cs = <<>> THEN "" ELSE Head(cs) \o Str(Tail(cs))

\* sha256 over update(filePath), update(content): the digest of the byte
\* stream filePath ++ content.  The digest stands for the stream it is
\* computed over.
calculateHash(filePath, content) == filePath \o Str(content)

\* content.split('\n'): the lines between the newlines, one line more than
\* there are newlines
RECURSIVE split(_)
split(content) ==
  IF content = <<>> THEN << <<>> >>
  ELSE LET rest == split(Tail(content)) IN
       IF Head(content) = NL
         THEN << <<>> >> \o rest
         ELSE << <<Head(content)>> \o Head(rest) >> \o Tail(rest)

\* lines.join('\n')
RECURSIVE join(_)
join(lines) ==
  IF lines = <<>> THEN <<>>
  ELSE IF Len(lines) = 1 THEN lines[1]
  ELSE lines[1] \o <<NL>> \o join(Tail(lines))

\* the path of chunk i (1-based) of numChunks
chunkPath(filePath, i, numChunks) ==
  filePath \o "#chunk" \o ToString(i) \o "of" \o ToString(numChunks)

chunkLinesOverlapping(lines, i, maxLines) ==
  Slice(lines, (i - 1) * maxLines, Min((i - 1) * maxLines + maxLines + 1, Len(lines)))

\* the lines of chunk i (1-based): lines.slice(start, end)
chunkLines(lines, i, maxLines) ==
  LET start == (i - 1) * maxLines
      end == Min(start + maxLines, Len(lines))
  IN Slice(lines, start, end)

\* splitFileContent: one blob for a file within the limit, else its chunks
splitFileContent(filePath, content) ==
  LET lines == split(content)
      totalLines == Len(lines)
      numChunks == Ceil(totalLines, config.maxLinesPerBlob)
  IN IF totalLines <= config.maxLinesPerBlob
       THEN <<File(filePath, content)>>
       ELSE [i \in 1..numChunks |->
               File(chunkPath(filePath, i, numChunks),
                    join(chunkLines(lines, i, config.maxLinesPerBlob)))]

TreeABC == <<File("a", <<"x">>), File("b", <<"y">>), File("c", <<"z">>)>>
TreeMod == <<File("a", <<"w">>), File("b", <<"y">>)>>
TreeD == <<File("d", <<"v">>)>>
TreeA == <<File("a", <<"x">>)>>
\* two source files next to each other, x.c holding "ppq" and x.cpp holding "q"
TreeDup == <<File("x.c", <<"p", "p", "q">>), File("x.cpp", <<"q">>)>>

Tree(fs) == [exists |-> TRUE, files |-> fs]
MissingTree == [exists |-> FALSE, files |-> <<>>]

\* the trees the walk of a project can find, by the kind of environment
TreesOf(world, p) ==
  IF world = "full"
    THEN IF p = "p1"
           THEN {MissingTree, Tree(<<>>), Tree(TreeABC), Tree(TreeMod)}
           ELSE {MissingTree, Tree(TreeD)}
    ELSE IF p = "p1"
           THEN {Tree(TreeA), Tree(TreeMod)}
                  \cup (IF world = "sources" THEN {Tree(TreeDup)} ELSE {})
           ELSE {Tree(TreeD)}

\* collectFiles: throws when the root does not exist, else the blobs of the
\* indexable files in walk order
collectFiles(tree) ==
  IF ~tree.exists THEN [threw |-> TRUE, blobs |-> <<>>]
  ELSE [threw |-> FALSE,
        blobs |-> Concat([i \in 1..Len(tree.files) |->
                   splitFileContent(tree.files[i].path, tree.files[i].content)])]

hashOf(b) == calculateHash(b.path, b.content)

(***************************************************************************)
(* Project Index Store.                                                    *)
(***************************************************************************)
EmptyMapping == [p \in Projects |-> <<>>]

StoreMissing == [kind |-> "missing", map |-> EmptyMapping]
StoreCorrupt == [kind |-> "corrupt", map |-> EmptyMapping]
StoreOf(m) == [kind |-> "ok", map |-> m]

\* loadProjects: {} when the file is missing or cannot be read or parsed
loadProjects(st) ==
  IF st.kind = "missing" THEN EmptyMapping
  ELSE IF st.kind = "corrupt" THEN EmptyMapping
  ELSE st.map

SaveOutcomes == {"ok", "failed", "torn"}

\* saveProjects: writes the whole mapping; mkdirSync or writeFileSync may
\* throw, leaving the file as it was or torn
saveProjects(st, projects, outcome) ==
  IF outcome = "ok" THEN [threw |-> FALSE, store |-> StoreOf(projects)]
  ELSE IF outcome = "failed" THEN [threw |-> TRUE, store |-> st]
  ELSE [threw |-> TRUE, store |-> StoreCorrupt]

(***************************************************************************)
(* Results and the state of a call.                                        *)
(***************************************************************************)
NoStats ==
  [totalBlobs |-> 0, existingBlobs |-> 0, newBlobs |-> 0, skippedBlobs |-> 0]

NoResult ==
  [status |-> "none", message |-> "", failedBatches |-> <<>>,
   hasStats |-> FALSE, stats |-> NoStats]

\* the IndexResult of the early return and of the catch block
ErrorResult(msg) ==
  [status |-> "error", message |-> msg, failedBatches |-> <<>>,
   hasStats |-> FALSE, stats |-> NoStats]

\* what a public operation handed to its caller: an IndexResult, a string
\* (prefix "Error: " or none) or an exception
NoOut == [kind |-> "none", prefix |-> "", body |-> ""]
ResultOut(res) == [kind |-> "IndexResult", prefix |-> "", body |-> res.status]
ErrorString(msg) == [kind |-> "string", prefix |-> "Error: ", body |-> msg]
TextString(txt) == [kind |-> "string", prefix |-> "", body |-> txt]
Thrown(msg) == [kind |-> "threw", prefix |-> "", body |-> msg]

NoResultsMessage == "no relevant context found"

\* the messages of the error thrown by collectFiles and of the early return
RootMissingMessage == "project path does not exist"
NoFilesMessage == "no text files found"

\* the message of the exception saveProjects rethrows
SaveFailureMessage == "save failed"

\* the SearchResponse a call received: its formatted_retrieval ("" when
\* empty or absent)
NoReply == [got |-> FALSE, text |-> ""]
Reply(text) == [got |-> TRUE, text |-> text]

NoPass ==
  [status |-> "none", blobs |-> <<>>, existing |-> <<>>, persisted |-> <<>>,
   failedHashes |-> {}, totalBlobs |-> 0, slot |-> 0]

IdleCall ==
  [pc |-> "idle", op |-> "none", proj |-> "none",
   \* locals of indexProject
   blobs |-> <<>>, projects |-> EmptyMapping, unchanged |-> <<>>,
   toUpload |-> <<>>, batchIdx |-> 0, uploaded |-> <<>>,
   failedBatches |-> <<>>, retry |-> NoRetry,
   \* what indexProject returned to searchContext or to the caller
   index |-> NoResult, out |-> NoOut,
   \* history of the call
   indexCalls |-> 0,      \* invocations of indexProject
   loadedFrom |-> "none", \* the state of the file when step 2 loaded it
   existing |-> <<>>,     \* the record loaded for the project
   sentUp |-> <<>>,       \* ordinals of the batches handed to retryRequest
   sentBatches |-> <<>>,  \* the blobs of each of these batches
   upAttempts |-> 0,      \* batch-upload requests sent, retries included,
                          \* where the environment keeps the tally
   sentQ |-> 0,           \* retrieval requests sent
   qBlobs |-> <<>>,       \* added_blobs of the retrieval request
   qDeleted |-> <<>>,     \* deleted_blobs of the retrieval request
   qReply |-> NoReply,    \* the response to the retrieval request
   batchLog |-> <<>>,     \* per finished batch: its ordinal, the names it got
   save |-> "none",       \* how the save of step 6 went, if it was reached
   persisted |-> <<>>,    \* the project's record in the store at the return
   prev |-> NoPass]       \* the pass on the project that completed before

R(call, st) == [call |-> call, store |-> st]

(***************************************************************************)
(* searchContext after indexProject returned (steps 2 and 3).              *)
(***************************************************************************)
searchAfterIndexIgnoringStatus(cr, st) ==
  LET projects == loadProjects(st)
      blobNames == projects[cr.proj]
  IN IF Len(blobNames) = 0
       THEN R([cr EXCEPT !.pc = "done",
                         !.out = ErrorString("no blobs after indexing")], st)
       ELSE R([cr EXCEPT !.pc = "querying",
                         !.retry = retryStart(SearchMaxRetries, SearchRetryDelay),
                         !.sentQ = 1, !.qBlobs = blobNames,
                         !.qDeleted = <<>>], st)

searchAfterIndexSendingCollected(cr, st) ==
  IF cr.index.status = "error"
    THEN R([cr EXCEPT !.pc = "done",
                      !.out = ErrorString("index failed. " \o cr.index.message)],
           st)
    ELSE R([cr EXCEPT !.pc = "querying",
                      !.retry = retryStart(SearchMaxRetries, SearchRetryDelay),
                      !.sentQ = 1,
                      !.qBlobs = [i \in 1..Len(cr.blobs) |-> hashOf(cr.blobs[i])],
                      !.qDeleted = <<>>], st)

searchAfterIndex(cr, st) ==
  IF cr.index.status = "error"
    THEN R([cr EXCEPT !.pc = "done",
                      !.out = ErrorString("index failed. " \o cr.index.message)],
           st)
    ELSE LET projects == loadProjects(st)
             blobNames == projects[cr.proj]
         IN IF Len(blobNames) = 0
              THEN R([cr EXCEPT !.pc = "done",
                                !.out = ErrorString("no blobs after indexing")],
                     st)
              ELSE R([cr EXCEPT !.pc = "querying",
                                !.retry = retryStart(SearchMaxRetries,
                                                     SearchRetryDelay),
                                !.sentQ = 1, !.qBlobs = blobNames,
                                !.qDeleted = <<>>], st)

indexReturnDroppingRecord(cr, st, result) ==
  LET cr1 == [cr EXCEPT !.index = result, !.retry = NoRetry]
      st1 == IF result.status = "error" /\ st.kind = "ok"
               THEN StoreOf([st.map EXCEPT ![cr.proj] = <<>>])
               ELSE st
  IN IF cr.op = "indexProject"
       THEN R([cr1 EXCEPT !.pc = "done", !.out = ResultOut(result)], st1)
       ELSE searchAfterIndex(cr1, st1)

\* indexProject returns: to its caller, or into searchContext
indexReturn(cr, st, result) ==
  LET cr1 == [cr EXCEPT !.index = result, !.retry = NoRetry] IN
  IF cr.op = "indexProject"
    THEN R([cr1 EXCEPT !.pc = "done", !.out = ResultOut(result)], st)
    ELSE searchAfterIndex(cr1, st)

(***************************************************************************)
(* indexProject                                                            *)
(***************************************************************************)
statusOfErrorWhenNothingUploaded(failedBatches, uploaded) ==
  IF Len(failedBatches) = 0 THEN "success"
  ELSE IF Len(uploaded) = 0 THEN "error"
  ELSE "partial_success"

statusOfAllOrNothing(failedBatches, uploaded) ==
  IF Len(failedBatches) > 0 /\ Len(uploaded) > 0 THEN "partial_success"
  ELSE "success"

statusOf(failedBatches, uploaded) ==
  IF Len(failedBatches) = 0 THEN "success" ELSE "partial_success"

finalizeMerging(cr, st, saveOutcome) ==
  LET own == cr.unchanged \o cr.uploaded
      there == loadProjects(st)[cr.proj]
      allHashes == own \o SelectSeq(there, LAMBDA h : h \notin Range(own))
      projects == [cr.projects EXCEPT ![cr.proj] = allHashes]
      sv == saveProjects(st, projects, saveOutcome)
  IN IF sv.threw
       THEN indexReturn(cr, sv.store, ErrorResult(SaveFailureMessage))
       ELSE indexReturn(
              [cr EXCEPT !.projects = projects],
              sv.store,
              [status |-> statusOf(cr.failedBatches, cr.uploaded),
               message |-> "indexed",
               failedBatches |-> cr.failedBatches,
               hasStats |-> TRUE,
               stats |-> [totalBlobs |-> Len(allHashes),
                          existingBlobs |-> Len(cr.unchanged),
                          newBlobs |-> Len(cr.uploaded),
                          skippedBlobs |-> Len(cr.unchanged)]])

finalizeSwallowingSaveFailure(cr, st, saveOutcome) ==
  LET allHashes == cr.unchanged \o cr.uploaded
      projects == [cr.projects EXCEPT ![cr.proj] = allHashes]
      sv == saveProjects(st, projects, saveOutcome)
  IN indexReturn(
       [cr EXCEPT !.projects = projects],
       sv.store,
       [status |-> statusOf(cr.failedBatches, cr.uploaded),
        message |-> "indexed",
        failedBatches |-> cr.failedBatches,
        hasStats |-> TRUE,
        stats |-> [totalBlobs |-> Len(allHashes),
                   existingBlobs |-> Len(cr.unchanged),
                   newBlobs |-> Len(cr.uploaded),
                   skippedBlobs |-> Len(cr.unchanged)]])

\* step 6: merge, save, and build the result; the catch block when the
\* save throws
finalize(cr, st, saveOutcome) ==
  LET allHashes == cr.unchanged \o cr.uploaded
      projects == [cr.projects EXCEPT ![cr.proj] = allHashes]
      sv == saveProjects(st, projects, saveOutcome)
  IN IF sv.threw
       THEN indexReturn(cr, sv.store, ErrorResult(SaveFailureMessage))
       ELSE indexReturn(
              [cr EXCEPT !.projects = projects],
              sv.store,
              [status |-> statusOf(cr.failedBatches, cr.uploaded),
               message |-> "indexed",
               failedBatches |-> cr.failedBatches,
               hasStats |-> TRUE,
               stats |-> [totalBlobs |-> Len(allHashes),
                          existingBlobs |-> Len(cr.unchanged),
                          newBlobs |-> Len(cr.uploaded),
                          skippedBlobs |-> Len(cr.unchanged)]])

totalBatches(cr) == Ceil(Len(cr.toUpload), config.batchSize)

batchBlobsFromStart(cr) ==
  Slice(cr.toUpload, 0,
        Min((cr.batchIdx + 1) * config.batchSize, Len(cr.toUpload)))

batchBlobs(cr) ==
  LET start == cr.batchIdx * config.batchSize
      end == Min(start + config.batchSize, Len(cr.toUpload))
  IN Slice(cr.toUpload, start, end)

\* the head of the batch loop: the next batch is sent, or the loop is left
uploadLoop(cr, st, saveOutcome) ==
  IF Len(cr.toUpload) > 0 /\ cr.batchIdx < totalBatches(cr)
    THEN R([cr EXCEPT !.pc = "indexing",
                      !.retry = retryStart(UploadMaxRetries, UploadRetryDelay),
                      !.sentUp = Append(@, cr.batchIdx + 1),
                      !.sentBatches = Append(@, batchBlobs(cr)),
                      !.upAttempts = IF env.tally THEN @ + 1 ELSE @], st)
    ELSE finalize(cr, st, saveOutcome)

mapKeysWithRepeats(hs) == hs

\* keys of blobHashMap in insertion order
RECURSIVE mapKeys(_)
mapKeys(hs) ==
  IF hs = <<>> THEN <<>>
  ELSE LET front == mapKeys(SubSeq(hs, 1, Len(hs) - 1))
           h == hs[Len(hs)]
       IN IF h \in Range(front) THEN front ELSE Append(front, h)

\* blobHashMap.get(h): the blob that was set last under h
mapGet(blobs, h) ==
  blobs[CHOOSE i \in 1..Len(blobs) :
          /\ hashOf(blobs[i]) = h
          /\ \A j \in (i + 1)..Len(blobs) : hashOf(blobs[j]) # h]

\* steps 2 to 4: unchanged and new hashes of the collected blobs
diffUnchanged(currentHashes, existingHashes) ==
  SelectSeq(currentHashes, LAMBDA h : h \in existingHashes)

diffNewIsEverything(currentHashes, existingHashes) == currentHashes

diffNew(currentHashes, existingHashes) ==
  SelectSeq(currentHashes, LAMBDA h : h \notin existingHashes)

\* steps 2 to 4 for the collected blobs and the stored list of the project
diffStep(blobs, stored) ==
  LET existingHashes == Range(stored)
      currentHashes == mapKeys([i \in 1..Len(blobs) |-> hashOf(blobs[i])])
      unchangedHashes == diffUnchanged(currentHashes, existingHashes)
      newHashes == diffNew(currentHashes, existingHashes)
  IN [unchangedHashes |-> unchangedHashes,
      newHashes |-> newHashes,
      blobsToUpload |-> [i \in 1..Len(newHashes) |-> mapGet(blobs, newHashes[i])]]

indexStartFatalOnCorrupt(cr, st, tree, saveOutcome) ==
  LET col == collectFiles(tree) IN
  IF col.threw
    THEN indexReturn(cr, st, ErrorResult(RootMissingMessage))
  ELSE IF Len(col.blobs) = 0
    THEN indexReturn(cr, st, ErrorResult(NoFilesMessage))
  ELSE IF st.kind = "corrupt"
    THEN indexReturn([cr EXCEPT !.blobs = col.blobs, !.loadedFrom = st.kind],
                     st, ErrorResult("state file cannot be parsed"))
  ELSE
    LET blobs == col.blobs
        projects == loadProjects(st)
        d == diffStep(blobs, projects[cr.proj])
    IN uploadLoop([cr EXCEPT !.blobs = blobs, !.projects = projects,
                             !.loadedFrom = st.kind,
                             !.existing = projects[cr.proj],
                             !.unchanged = d.unchangedHashes,
                             !.toUpload = d.blobsToUpload],
                  st, saveOutcome)

\* steps 1 to 5 up to the first upload request
indexStart(cr, st, tree, saveOutcome) ==
  LET col == collectFiles(tree) IN
  IF col.threw
    THEN indexReturn(cr, st, ErrorResult(RootMissingMessage))
  ELSE IF Len(col.blobs) = 0
    THEN indexReturn(cr, st, ErrorResult(NoFilesMessage))
  ELSE
    LET blobs == col.blobs
        projects == loadProjects(st)
        d == diffStep(blobs, projects[cr.proj])
    IN uploadLoop([cr EXCEPT !.blobs = blobs, !.projects = projects,
                             !.loadedFrom = st.kind,
                             !.existing = projects[cr.proj],
                             !.unchanged = d.unchangedHashes,
                             !.toUpload = d.blobsToUpload],
                  st, saveOutcome)

(***************************************************************************)
(* The remote service.                                                     *)
(***************************************************************************)
UploadReplies == {"names", "reversed", "empty"}
RetrievalTexts == {"", "ctx"}

Reverse(s) == [i \in 1..Len(s) |-> s[Len(s) + 1 - i]]

\* blob_names of a batch-upload response: the identifiers of the blobs of the
\* request in some order, or none
blobNames(batch, reply) ==
  LET names == [i \in 1..Len(batch) |-> calculateHash(batch[i].path, batch[i].content)]
  IN IF reply = "names" THEN names
     ELSE IF reply = "reversed" THEN Reverse(names)
     ELSE <<>>

(***************************************************************************)
(* Entry of the public operations.                                         *)
(***************************************************************************)
PathKinds == {"absolute", "relative"}

\* normalizePath: path.resolve reads the working directory for a relative
\* path and throws when that directory is gone
normalizePathThrows(pathKind, cwdGone) == pathKind = "relative" /\ cwdGone

Busy == {c \in Slots : calls[c].pc \notin {"idle", "done"}}

\* a caller invokes an operation: in the first slot that is not running one
FreeSlot(c) ==
  /\ c \notin Busy
  /\ \A d \in Slots : d < c => d \in Busy
  /\ Cardinality(Busy) < env.clients

Fresh(op, p) == [IdleCall EXCEPT !.op = op, !.proj = p, !.prev = last[p]]

\* ordinal k of the batch loop holds these blobs of blobsToUpload
BlobsOfBatch(cr, k) ==
  {cr.toUpload[i] : i \in {j \in 1..Len(cr.toUpload) :
                             /\ (k - 1) * config.batchSize < j
                             /\ j <= k * config.batchSize}}

\* hashes of the blobs of the batches that got no names
FailedHashes(cr) ==
  UNION {{hashOf(b) : b \in BlobsOfBatch(cr, cr.batchLog[i].ord)} :
           i \in {j \in 1..Len(cr.batchLog) : cr.batchLog[j].names = <<>>}}

Summary(c, cr) ==
  [status |-> cr.index.status, blobs |-> cr.blobs, existing |-> cr.existing,
   persisted |-> cr.persisted, failedHashes |-> FailedHashes(cr),
   totalBlobs |-> cr.index.stats.totalBlobs, slot |-> c]

\* the effect of one segment of call c: its new state and the store; when
\* indexProject returned in the segment, what it left behind is recorded
Effect(c, res, saveOutcome) ==
  LET returned == res.call.index.status # "none"
      cr == IF returned
              THEN [res.call EXCEPT
                      !.persisted = loadProjects(res.store)[res.call.proj],
                      !.save = IF Len(res.call.blobs) > 0
                                 THEN saveOutcome ELSE "none"]
              ELSE res.call
  IN /\ calls' = [calls EXCEPT ![c] = cr]
     /\ store' = res.store
     /\ last' = IF returned
                  THEN [last EXCEPT ![cr.proj] = Summary(c, cr)]
                  ELSE last

\* the save is reached in this segment only when the batch loop is over
SaveChoices(cr) ==
  IF Len(cr.toUpload) > 0 /\ cr.batchIdx < Ceil(Len(cr.toUpload), config.batchSize)
    THEN {"ok"} ELSE SaveOutcomes

Logged(cr, names) ==
  [cr EXCEPT !.batchLog = Append(@, [ord |-> cr.batchIdx + 1, names |-> names])]

indexProjectEntry(cr, st, tree, pathKind, cwdGone, saveOutcome) ==
  IF normalizePathThrows(pathKind, cwdGone)
    THEN R([cr EXCEPT !.pc = "done", !.out = Thrown("uv_cwd")], st)
    ELSE indexStart([cr EXCEPT !.indexCalls = 1], st, tree, saveOutcome)

searchContextEntryStale(cr, st, tree, pathKind, cwdGone, saveOutcome) ==
  IF normalizePathThrows(pathKind, cwdGone)
    THEN R([cr EXCEPT !.pc = "done", !.out = Thrown("uv_cwd")], st)
  ELSE IF loadProjects(st)[cr.proj] # <<>>
    THEN searchAfterIndexIgnoringStatus(cr, st)
    ELSE indexStart([cr EXCEPT !.indexCalls = 1], st, tree, saveOutcome)

searchContextEntry(cr, st, tree, pathKind, cwdGone, saveOutcome) ==
  IF normalizePathThrows(pathKind, cwdGone)
    THEN R([cr EXCEPT !.pc = "done", !.out = Thrown("uv_cwd")], st)
    ELSE indexStart([cr EXCEPT !.indexCalls = 1], st, tree, saveOutcome)

ToolArgs == {"ok", "noPath", "noQuery"}

searchContextToolEntry(cr, st, tree, args, pathKind, cwdGone, saveOutcome) ==
  IF args = "noPath"
    THEN R([cr EXCEPT !.pc = "done",
                      !.out = ErrorString("project_root_path is required")], st)
  ELSE IF args = "noQuery"
    THEN R([cr EXCEPT !.pc = "done",
                      !.out = ErrorString("query is required")], st)
  ELSE LET res == searchContextEntry(cr, st, tree, pathKind, cwdGone, saveOutcome)
       IN IF res.call.out.kind = "threw"
            THEN R([res.call EXCEPT !.out = ErrorString(res.call.out.body)],
                   res.store)
            ELSE res

\* what the call meets in its first segment: the tree its walk finds, the
\* kind of path it is given, whether the working directory is gone, and how
\* the save goes.  Only the samples that can make a difference are drawn:
\* the save is reached in the first segment only when no blob is new.
Samples(p) ==
  LET known == Range(loadProjects(store)[p])
      quiet(t) == LET blobs == collectFiles(t).blobs IN
                  /\ t.exists
                  /\ blobs # <<>>
                  /\ \A i \in 1..Len(blobs) : hashOf(blobs[i]) \in known
  IN {x \in [tree : TreesOf(env.world, p), pathKind : PathKinds,
             cwdGone : BOOLEAN, saveOutcome : SaveOutcomes] :
        /\ x.cwdGone => x.tree = MissingTree /\ x.saveOutcome = "ok"
        /\ x.pathKind = "relative" <=> x.cwdGone
        /\ x.saveOutcome # "ok" => quiet(x.tree)}

IndexProject(c) ==
  /\ c \in Slots
  /\ nStarted < MaxCalls
  /\ FreeSlot(c)
  /\ \E p \in Projects :
       \E x \in Samples(p) :
         Effect(c, indexProjectEntry(Fresh("indexProject", p), store, x.tree,
                                     x.pathKind, x.cwdGone, x.saveOutcome),
                x.saveOutcome)
  /\ nStarted' = nStarted + 1
  /\ UNCHANGED <<config, env, nEnv, rt, pf>>

SearchContext(c) ==
  /\ c \in Slots
  /\ nStarted < MaxCalls
  /\ FreeSlot(c)
  /\ \E p \in Projects :
       \E x \in Samples(p) :
         Effect(c, searchContextEntry(Fresh("searchContext", p), store, x.tree,
                                      x.pathKind, x.cwdGone, x.saveOutcome),
                x.saveOutcome)
  /\ nStarted' = nStarted + 1
  /\ UNCHANGED <<config, env, nEnv, rt, pf>>

SearchContextTool(c) ==
  /\ c \in Slots
  /\ nStarted < MaxCalls
  /\ FreeSlot(c)
  /\ \E p \in Projects, args \in ToolArgs :
       \E x \in IF args = "ok" THEN Samples(p)
                ELSE {y \in Samples(p) : y.cwdGone} :
         Effect(c, searchContextToolEntry(Fresh("searchContextTool", p), store,
                                          x.tree, args, x.pathKind, x.cwdGone,
                                          x.saveOutcome),
                x.saveOutcome)
  /\ nStarted' = nStarted + 1
  /\ UNCHANGED <<config, env, nEnv, rt, pf>>

(***************************************************************************)
(* The batch loop: answers of the batch-upload endpoint and the timer.     *)
(***************************************************************************)
batchFailedAbortsLoop(cr) ==
  [cr EXCEPT !.failedBatches = Append(@, cr.batchIdx + 1),
             !.batchIdx = totalBatches(cr)]

batchFailedButRecorded(cr) ==
  [cr EXCEPT !.failedBatches = Append(@, cr.batchIdx + 1),
             !.uploaded = @ \o [i \in 1..Len(batchBlobs(cr)) |->
                                  hashOf(batchBlobs(cr)[i])],
             !.batchIdx = @ + 1]

\* the batch failed: its ordinal is recorded
batchFailed(cr) ==
  [cr EXCEPT !.failedBatches = Append(@, cr.batchIdx + 1),
             !.batchIdx = @ + 1]

\* the result of retryRequest(uploadBatch) is examined
batchAnswered(cr, names) ==
  IF Len(names) > 0
    THEN [cr EXCEPT !.uploaded = @ \o names, !.batchIdx = @ + 1]
    ELSE batchFailed(cr)

UploadResolves(c) ==
  /\ c \in Slots
  /\ calls[c].pc = "indexing"
  /\ calls[c].retry.st = "inflight"
  /\ \E names \in {blobNames(batchBlobs(calls[c]), reply) : reply \in UploadReplies} :
       LET cr == batchAnswered(Logged(calls[c], names), names)
       IN \E saveOutcome \in SaveChoices(cr) :
            Effect(c, uploadLoop(cr, store, saveOutcome), saveOutcome)
  /\ UNCHANGED <<config, env, nStarted, nEnv, rt, pf>>

UploadRejects(c) ==
  /\ c \in Slots
  /\ calls[c].pc = "indexing"
  /\ calls[c].retry.st = "inflight"
  /\ \E e \in NetErrors :
       LET r == retryOnReject(calls[c].retry, e) IN
       IF r.st = "waiting"
         THEN /\ calls' = [calls EXCEPT ![c].retry = r]
              /\ UNCHANGED <<store, last>>
         ELSE LET cr == batchFailed(Logged(calls[c], <<>>)) IN
              \E saveOutcome \in SaveChoices(cr) :
                Effect(c, uploadLoop(cr, store, saveOutcome), saveOutcome)
  /\ UNCHANGED <<config, env, nStarted, nEnv, rt, pf>>

\* the backoff timer of a waiting retryRequest fires: the request is sent again
BackoffTimer(c) ==
  /\ c \in Slots
  /\ calls[c].pc \in {"indexing", "querying"}
  /\ calls[c].retry.st = "waiting"
  /\ LET cr == calls[c]
         cr1 == [cr EXCEPT !.retry = retryOnTimer(cr.retry)]
     IN calls' = [calls EXCEPT ![c] =
          IF cr.pc = "indexing"
            THEN [cr1 EXCEPT !.upAttempts = IF env.tally THEN @ + 1 ELSE @]
          ELSE [cr1 EXCEPT !.sentQ = @ + 1]]
  /\ UNCHANGED <<config, env, store, last, nStarted, nEnv, rt, pf>>

(***************************************************************************)
(* Answers of the retrieval endpoint.                                      *)
(***************************************************************************)
searchReturn(cr, formattedRetrieval) ==
  [cr EXCEPT !.pc = "done", !.retry = NoRetry,
             !.qReply = Reply(formattedRetrieval),
             !.out = IF formattedRetrieval = ""
                       THEN TextString(NoResultsMessage)
                       ELSE TextString(formattedRetrieval)]

SearchResolves(c) ==
  /\ c \in Slots
  /\ calls[c].pc = "querying"
  /\ calls[c].retry.st = "inflight"
  /\ \E text \in RetrievalTexts :
       calls' = [calls EXCEPT ![c] = searchReturn(calls[c], text)]
  /\ UNCHANGED <<config, env, store, last, nStarted, nEnv, rt, pf>>

SearchRejects(c) ==
  /\ c \in Slots
  /\ calls[c].pc = "querying"
  /\ calls[c].retry.st = "inflight"
  /\ \E e \in NetErrors :
       LET cr == calls[c]
           r == retryOnReject(cr.retry, e)
       IN calls' = [calls EXCEPT ![c] =
            IF r.st = "waiting"
              THEN [cr EXCEPT !.retry = r]
              ELSE [cr EXCEPT !.pc = "done", !.retry = NoRetry,
                              !.out = ErrorString(e.code)]]
  /\ UNCHANGED <<config, env, store, last, nStarted, nEnv, rt, pf>>

(***************************************************************************)
(* The environment: the state file is removed or damaged.  The tree of a   *)
(* project is whatever the walk of a call finds.                           *)
(***************************************************************************)
DamageStore ==
  /\ nEnv < MaxEnv
  /\ store # StoreCorrupt
  /\ store' = StoreCorrupt
  /\ nEnv' = nEnv + 1
  /\ UNCHANGED <<config, env, calls, last, nStarted, rt, pf>>

(***************************************************************************)
(* Specifications.                                                         *)
(***************************************************************************)
Init ==
  /\ config \in [batchSize : BatchSizes, maxLinesPerBlob : {DefaultMaxLinesPerBlob}]
  /\ env = [clients |-> 1, world |-> "full", tally |-> FALSE]
  /\ store = StoreMissing
  /\ calls = [c \in 1..env.clients |-> IdleCall]
  /\ last = [p \in Projects |-> NoPass]
  /\ nStarted = 0
  /\ nEnv = 0
  /\ rt = RtIdle
  /\ pf = PfIdle

Next ==
  \/ \E c \in SlotIds : IndexProject(c)
  \/ \E c \in SlotIds : SearchContext(c)
  \/ \E c \in SlotIds : SearchContextTool(c)
  \/ \E c \in SlotIds : UploadResolves(c)
  \/ \E c \in SlotIds : UploadRejects(c)
  \/ \E c \in SlotIds : BackoffTimer(c)
  \/ \E c \in SlotIds : SearchResolves(c)
  \/ \E c \in SlotIds : SearchRejects(c)
  \/ DamageStore

Spec == Init /\ [][Next]_vars

InitRetry ==
  /\ config \in [batchSize : {1}, maxLinesPerBlob : {DefaultMaxLinesPerBlob}]
  /\ env = [clients |-> 1, world |-> "full", tally |-> FALSE]
  /\ store = StoreMissing
  /\ calls = [c \in 1..env.clients |-> IdleCall]
  /\ last = [p \in Projects |-> NoPass]
  /\ nStarted = 0
  /\ nEnv = 0
  /\ \E n \in RetryCounts, d \in RetryDelays :
       rt = [r |-> retryStart(n, d), errs |-> <<>>]
  /\ pf = PfIdle

NextRetry ==
  \/ \E e \in AllErrors : RetryFnRejects(e)
  \/ RetryFnResolves
  \/ RetryTimerFires

SpecRetry == InitRetry /\ [][NextRetry]_vars

(***************************************************************************)
(* The pure steps on their own: the content hash of two (path, content)    *)
(* pairs, the diff of steps 2 to 4 on a list of blobs and a stored list,   *)
(* and splitFileContent on a file, for every input of the bounded sets.    *)
(***************************************************************************)
BoundedSeqs(S, n) == UNION {[1..k -> S] : k \in 0..n}

SamplePaths == {"x.c", "x.cpp"}
SampleContents == {<<"q">>, <<"p", "p", "q">>}
SampleBlobs == {File(p, c) : p \in SamplePaths, c \in SampleContents}
SampleHashes == {hashOf(b) : b \in SampleBlobs} \cup {"gone"}
SampleChars == {"x", "y", NL}

HashInputs ==
  {[fn |-> "hash", a |-> a, b |-> b, done |-> FALSE] :
     a \in SampleBlobs, b \in SampleBlobs}

DiffInputs ==
  {[fn |-> "diff", blobs |-> bs, stored |-> st, done |-> FALSE] :
     bs \in BoundedSeqs(SampleBlobs, MaxBlobs),
     st \in BoundedSeqs(SampleHashes, MaxStored)}

SplitInputs ==
  {[fn |-> "split", path |-> "f.c", content |-> c, done |-> FALSE] :
     c \in BoundedSeqs(SampleChars, MaxChars)}

HashStep ==
  /\ pf.fn = "hash"
  /\ ~pf.done
  /\ pf' = [fn |-> "hash", a |-> pf.a, b |-> pf.b, done |-> TRUE,
            ha |-> calculateHash(pf.a.path, pf.a.content),
            hb |-> calculateHash(pf.b.path, pf.b.content)]
  /\ UNCHANGED <<config, env, store, calls, last, nStarted, nEnv, rt>>

DiffStep ==
  /\ pf.fn = "diff"
  /\ ~pf.done
  /\ pf' = [fn |-> "diff", blobs |-> pf.blobs, stored |-> pf.stored,
            done |-> TRUE, res |-> diffStep(pf.blobs, pf.stored)]
  /\ UNCHANGED <<config, env, store, calls, last, nStarted, nEnv, rt>>

SplitStep ==
  /\ pf.fn = "split"
  /\ ~pf.done
  /\ pf' = [fn |-> "split", path |-> pf.path, content |-> pf.content,
            done |-> TRUE, res |-> splitFileContent(pf.path, pf.content)]
  /\ UNCHANGED <<config, env, store, calls, last, nStarted, nEnv, rt>>

InitPure ==
  /\ config \in [batchSize : {1}, maxLinesPerBlob : 1..MaxLinesTried]
  /\ env = [clients |-> 1, world |-> "full", tally |-> FALSE]
  /\ store = StoreMissing
  /\ calls = [c \in 1..env.clients |-> IdleCall]
  /\ last = [p \in Projects |-> NoPass]
  /\ nStarted = 0
  /\ nEnv = 0
  /\ rt = RtIdle
  /\ pf \in HashInputs \cup DiffInputs \cup SplitInputs

NextPure ==
  \/ HashStep
  \/ DiffStep
  \/ SplitStep

SpecPure == InitPure /\ [][NextPure]_vars

\* one call with the upload requests tallied, started on any state file an
\* earlier call or the environment can have left; every request is answered
\* or times out, and every backoff timer fires
StartStores ==
  {StoreMissing, StoreCorrupt, StoreOf([EmptyMapping EXCEPT !["p1"] = <<hashOf(TreeA[1])>>])}

InitLive ==
  /\ config \in [batchSize : BatchSizes, maxLinesPerBlob : {DefaultMaxLinesPerBlob}]
  /\ env = [clients |-> 1, world |-> "sources", tally |-> TRUE]
  /\ store \in StartStores
  /\ calls = [c \in 1..env.clients |-> IdleCall]
  /\ last = [p \in Projects |-> NoPass]
  /\ nStarted = MaxCalls - 1
  /\ nEnv = 0
  /\ rt = RtIdle
  /\ pf = PfIdle

Answered ==
  /\ WF_vars(\E c \in SlotIds : UploadResolves(c) \/ UploadRejects(c))
  /\ WF_vars(\E c \in SlotIds : SearchResolves(c) \/ SearchRejects(c))
  /\ WF_vars(\E c \in SlotIds : BackoffTimer(c))

SpecLive == InitLive /\ [][Next]_vars /\ Answered

\* two callers whose operations can overlap
InitConc ==
  /\ config \in [batchSize : BatchSizes, maxLinesPerBlob : {DefaultMaxLinesPerBlob}]
  /\ env = [clients |-> 2, world |-> "small", tally |-> FALSE]
  /\ store = StoreMissing
  /\ calls = [c \in 1..env.clients |-> IdleCall]
  /\ last = [p \in Projects |-> NoPass]
  /\ nStarted = 0
  /\ nEnv = 0
  /\ rt = RtIdle
  /\ pf = PfIdle

\* overlapping indexProject passes
NextConc ==
  \/ \E c \in SlotIds : IndexProject(c)
  \/ \E c \in SlotIds : UploadResolves(c)
  \/ \E c \in SlotIds : UploadRejects(c)
  \/ \E c \in SlotIds : BackoffTimer(c)

SpecConc == InitConc /\ [][NextConc]_vars

(***************************************************************************)
(* Vocabulary of the properties.                                           *)
(***************************************************************************)
IndexReturned(cr) == cr.index.status # "none"
SearchOps == {"searchContext", "searchContextTool"}

\* names returned by the batches that succeeded, in batch order
OkNames(cr) == Concat([i \in 1..Len(cr.batchLog) |-> cr.batchLog[i].names])

\* ordinals of the batches that failed, in the order they failed
FailedOrdinals(cr) ==
  LET failed == SelectSeq(cr.batchLog, LAMBDA b : b.names = <<>>)
  IN [i \in 1..Len(failed) |-> failed[i].ord]

SomeBatchSucceeded(cr) == \E i \in 1..Len(cr.batchLog) : cr.batchLog[i].names # <<>>

NumBatches(cr) == Ceil(Len(cr.toUpload), config.batchSize)
Ordinals(n) == [k \in 1..n |-> k]

DistinctHashes(blobs) == {hashOf(b) : b \in Range(blobs)}

\* the pass of call cr follows a pass on the same files, and reads the
\* record that pass left in the store
FollowsPass(cr) ==
  /\ cr.prev.status # "none"
  /\ Len(cr.blobs) > 0
  /\ cr.blobs = cr.prev.blobs
  /\ cr.existing = cr.prev.persisted

(***************************************************************************)
(* C1: in a pass where some batches fail, every batch is still attempted   *)
(* in order, and when the save succeeds the record persisted is the        *)
(* unchanged hashes followed by the names of the successful batches, with  *)
(* no hash of a failed batch, failedBatches lists the failed ordinals in   *)
(* ascending order and the status is partial_success; when the save fails  *)
(* the status is error.                                                    *)
(***************************************************************************)
C1_PartialFailureContained ==
  \A c \in Slots :
    LET cr == calls[c] IN
    (IndexReturned(cr) /\ FailedOrdinals(cr) # <<>>) =>
      /\ cr.sentUp = Ordinals(NumBatches(cr))
      /\ [i \in 1..Len(cr.batchLog) |-> cr.batchLog[i].ord] = cr.sentUp
      /\ cr.save = "ok" =>
           /\ cr.persisted = cr.unchanged \o OkNames(cr)
           /\ FailedHashes(cr) \cap Range(cr.persisted) = {}
           /\ cr.index.failedBatches = FailedOrdinals(cr)
           /\ cr.index.status = "partial_success"
      /\ cr.save # "ok" => cr.index.status = "error"

\* C1 as stated: whatever happens to the save
C1_AsStated ==
  \A c \in Slots :
    LET cr == calls[c] IN
    (IndexReturned(cr) /\ FailedOrdinals(cr) # <<>>) =>
      /\ cr.sentUp = Ordinals(NumBatches(cr))
      /\ cr.persisted = cr.unchanged \o OkNames(cr)
      /\ FailedHashes(cr) \cap Range(cr.persisted) = {}
      /\ cr.index.failedBatches = FailedOrdinals(cr)
      /\ cr.index.status = "partial_success"

\* batch 2 of 3 failed, batches 1 and 3 succeeded, the record was saved
C1_Witness ==
  \E c \in Slots :
    /\ IndexReturned(calls[c])
    /\ Len(calls[c].batchLog) = 3
    /\ FailedOrdinals(calls[c]) = <<2>>
    /\ calls[c].save = "ok"
    /\ calls[c].index.status = "partial_success"

(***************************************************************************)
(* C2: a pass that follows a pass with status success on the same files,   *)
(* and reads the record that pass left, sends no upload request; unless    *)
(* its own save fails it reports newBlobs = 0, existingBlobs = the number  *)
(* of distinct identifiers of the current blobs, and the totalBlobs of     *)
(* the pass before.                                                        *)
(***************************************************************************)
C2_IdempotentReindex ==
  \A c \in Slots :
    LET cr == calls[c] IN
    (IndexReturned(cr) /\ FollowsPass(cr) /\ cr.prev.status = "success") =>
      /\ cr.sentUp = <<>>
      /\ cr.index.status # "error" =>
           /\ cr.index.status = "success"
           /\ cr.index.stats.newBlobs = 0
           /\ cr.index.stats.existingBlobs = Cardinality(DistinctHashes(cr.blobs))
           /\ cr.index.stats.totalBlobs = cr.prev.totalBlobs

\* C2 as stated: after any pass that reported statistics
C2_AsStated ==
  \A c \in Slots :
    LET cr == calls[c] IN
    (IndexReturned(cr) /\ FollowsPass(cr) /\ cr.prev.status # "error"
       /\ cr.index.status # "error") =>
      /\ cr.sentUp = <<>>
      /\ cr.index.stats.newBlobs = 0
      /\ cr.index.stats.existingBlobs = Len(cr.blobs)
      /\ cr.index.stats.totalBlobs = cr.prev.totalBlobs

C2_Witness ==
  \E c \in Slots :
    /\ IndexReturned(calls[c])
    /\ FollowsPass(calls[c])
    /\ calls[c].prev.status = "success"
    /\ calls[c].index.status = "success"
    /\ calls[c].index.stats.existingBlobs = 3

(***************************************************************************)
(* C3: a pass returns error only when nothing could be collected, and then *)
(* no upload request was sent, or when the save at its end failed.         *)
(***************************************************************************)
C3_ErrorOnlyWithoutWorkOrOnSaveFailure ==
  \A c \in Slots :
    LET cr == calls[c] IN
    (IndexReturned(cr) /\ cr.index.status = "error") =>
      \/ cr.save = "none" /\ cr.sentUp = <<>> /\ cr.blobs = <<>>
      \/ cr.save \in {"failed", "torn"}

\* C3 as stated: no upload request in any pass that returns error
C3_AsStated ==
  \A c \in Slots :
    (IndexReturned(calls[c]) /\ calls[c].index.status = "error") =>
      calls[c].sentUp = <<>>

C3_Witness ==
  \E c \in Slots :
    /\ IndexReturned(calls[c])
    /\ calls[c].index.status = "error"
    /\ calls[c].save = "none"
    /\ calls[c].prev.status = "success"

(***************************************************************************)
(* C4: a pass that does not return error returns partial_success exactly   *)
(* when at least one batch failed, and success otherwise.                  *)
(***************************************************************************)
C4_StatusFollowsFailedBatches ==
  \A c \in Slots :
    LET cr == calls[c] IN
    (IndexReturned(cr) /\ cr.index.status # "error") =>
      /\ cr.index.status \in {"success", "partial_success"}
      /\ cr.index.status = "partial_success" <=> FailedOrdinals(cr) # <<>>

\* C4 as stated: partial_success needs a batch that succeeded as well
C4_AsStated ==
  \A c \in Slots :
    LET cr == calls[c] IN
    (IndexReturned(cr) /\ cr.index.status # "error") =>
      /\ cr.index.status \in {"success", "partial_success"}
      /\ cr.index.status = "partial_success" <=>
           (FailedOrdinals(cr) # <<>> /\ SomeBatchSucceeded(cr))

C4_Witness ==
  \E c \in Slots :
    /\ IndexReturned(calls[c])
    /\ calls[c].index.status = "partial_success"
    /\ FailedOrdinals(calls[c]) # <<>>
    /\ SomeBatchSucceeded(calls[c])

(***************************************************************************)
(* C5: a retrieval request is sent only after an indexProject pass of the  *)
(* same call has run all its batches and returned, whatever the store      *)
(* held.                                                                   *)
(***************************************************************************)
C5_IndexBeforeRetrieval ==
  \A c \in Slots :
    LET cr == calls[c] IN
    (cr.sentQ > 0 \/ cr.pc = "querying") =>
      /\ cr.op \in SearchOps
      /\ cr.indexCalls = 1
      /\ cr.index.status \in {"success", "partial_success"}
      /\ cr.sentUp = Ordinals(NumBatches(cr))
      /\ Len(cr.batchLog) = NumBatches(cr)

\* a retrieval request of a call that found a record of an earlier pass
C5_Witness ==
  \E c \in Slots :
    /\ calls[c].sentQ > 0
    /\ calls[c].existing # <<>>
    /\ calls[c].indexCalls = 1

(***************************************************************************)
(* C6: in searchContext, when indexing reports error the call ends with an *)
(* "Error:" string and no retrieval request; when it reports success or    *)
(* partial_success the retrieval request is sent, unless the record just   *)
(* persisted for the project is empty, and then the call ends with an      *)
(* "Error:" string as well.                                                *)
(***************************************************************************)
C6_ErrorFromIndexing ==
  \A c \in Slots :
    LET cr == calls[c] IN
    (cr.op \in SearchOps /\ IndexReturned(cr)) =>
      /\ cr.index.status = "error" =>
           cr.sentQ = 0 /\ cr.pc = "done" /\ cr.out.prefix = "Error: "
      /\ cr.index.status # "error" =>
           /\ cr.sentQ > 0 <=> cr.persisted # <<>>
           /\ cr.persisted = <<>> =>
                cr.pc = "done" /\ cr.out.prefix = "Error: "

\* C6 as stated: success or partial_success always leads to the request
C6_AsStated ==
  \A c \in Slots :
    LET cr == calls[c] IN
    (cr.op \in SearchOps /\ IndexReturned(cr)) =>
      /\ cr.index.status = "error" => cr.sentQ = 0
      /\ cr.index.status # "error" => cr.sentQ > 0

C6_Witness ==
  \E c \in Slots :
    /\ calls[c].op \in SearchOps
    /\ calls[c].index.status = "partial_success"
    /\ calls[c].sentQ > 0

(***************************************************************************)
(* C7: no exception escapes a public operation: indexProject hands back an *)
(* IndexResult, searchContext and searchContextTool a string.              *)
(***************************************************************************)
C7_NoExceptionEscapes ==
  \A c \in Slots :
    LET cr == calls[c] IN
    cr.pc = "done" =>
      /\ cr.out.kind # "threw"
      /\ cr.op = "indexProject" => cr.out.kind = "IndexResult"
      /\ cr.op \in SearchOps => cr.out.kind = "string"

(***************************************************************************)
(* C8: retryRequest with maxRetries = N and retryDelay = d.  When every    *)
(* attempt fails with status 503 the error propagates after exactly N      *)
(* attempts, with waits d, 2d, 4d, ... between them; when the first        *)
(* attempt fails with status 404 it propagates after that one attempt,     *)
(* with no wait.                                                           *)
(***************************************************************************)
AllAre(errs, e) == \A i \in 1..Len(errs) : errs[i] = e

C8_RetryBackoff ==
  LET r == rt.r
      n == r.maxRetries
      d == r.retryDelay
  IN /\ (r.st = "thrown" /\ AllAre(rt.errs, E503)) =>
          /\ Len(rt.errs) = n
          /\ r.tries = n
          /\ r.waits = [k \in 1..(n - 1) |-> d * 2^(k - 1)]
          /\ r.lastError = E503
     /\ (AllAre(rt.errs, E503) /\ Len(rt.errs) < n) => r.st # "thrown"
     /\ (Len(rt.errs) > 0 /\ rt.errs[1] = E404) =>
          /\ r.st = "thrown"
          /\ Len(rt.errs) = 1
          /\ r.tries = 1
          /\ r.waits = <<>>
          /\ r.lastError = E404

\* four attempts all answered 503: waits d, 2d, 4d
C8_Witness ==
  /\ rt.r.st = "thrown"
  /\ rt.r.maxRetries = 4
  /\ rt.errs = <<E503, E503, E503, E503>>
  /\ Len(rt.r.waits) = 3

(***************************************************************************)
(* C9: retryRequest retries an error if and only if it is transient:       *)
(* connection reset, aborted or refused, request timeout, HTTP 429 or a    *)
(* 5xx status; any other error propagates on its first occurrence.         *)
(***************************************************************************)
Transient(e) ==
  /\ e.axios
  /\ \/ e.code \in {"ECONNRESET", "ECONNABORTED", "ECONNREFUSED", "ETIMEDOUT"}
     \/ e.status = 429
     \/ e.status >= 500

C9_RetriesIffTransient ==
  LET r == rt.r
      n == Len(rt.errs)
  IN n > 0 =>
       /\ ~Transient(rt.errs[n]) => r.st = "thrown" /\ r.tries = n
       /\ (Transient(rt.errs[n]) /\ n < r.maxRetries) => r.st # "thrown"

(***************************************************************************)
(* C10: when a pass with a failed batch is followed by a pass on the same  *)
(* files that reads the record the first pass left, every blob of the      *)
(* failed batch is classified as new again and is part of a batch that is  *)
(* uploaded.                                                               *)
(***************************************************************************)
NewHashes(cr) == {hashOf(b) : b \in Range(cr.toUpload)}

SentHashes(cr) ==
  UNION {{hashOf(b) : b \in BlobsOfBatch(cr, cr.sentUp[i])} : i \in 1..Len(cr.sentUp)}

C10_FailedBatchRetriedNextPass ==
  \A c \in Slots :
    LET cr == calls[c] IN
    (cr.pc # "idle" /\ FollowsPass(cr) /\ cr.prev.failedHashes # {}) =>
      /\ cr.prev.failedHashes \subseteq NewHashes(cr)
      /\ cr.prev.failedHashes \cap Range(cr.unchanged) = {}
      /\ IndexReturned(cr) => cr.prev.failedHashes \subseteq SentHashes(cr)

C10_Witness ==
  \E c \in Slots :
    /\ IndexReturned(calls[c])
    /\ FollowsPass(calls[c])
    /\ calls[c].prev.failedHashes # {}
    /\ calls[c].prev.status = "partial_success"
    /\ calls[c].unchanged # <<>>

(***************************************************************************)
(* C11: when the save at the end of a pass fails, indexProject returns     *)
(* status error with the message of the failure and no statistics, and a   *)
(* searchContext call built on that pass ends with an "Error:" string that *)
(* carries the message, without a retrieval request.                       *)
(***************************************************************************)
C11_SaveFailureSurfaced ==
  \A c \in Slots :
    LET cr == calls[c] IN
    cr.save \in {"failed", "torn"} =>
      /\ cr.pc = "done"
      /\ cr.index.status = "error"
      /\ cr.index.message = SaveFailureMessage
      /\ ~cr.index.hasStats
      /\ cr.op = "indexProject" => cr.out = ResultOut(cr.index)
      /\ cr.op \in SearchOps =>
           /\ cr.sentQ = 0
           /\ cr.out = ErrorString("index failed. " \o SaveFailureMessage)

\* a searchContext call whose pass uploaded a batch and then failed to save
C11_Witness ==
  \E c \in Slots :
    /\ calls[c].op = "searchContext"
    /\ calls[c].save = "failed"
    /\ calls[c].uploaded # <<>>
    /\ calls[c].out.prefix = "Error: "

(***************************************************************************)
(* C12: a call in the Querying state has sent a retrieval request whose    *)
(* added_blobs is the list its own indexing pass wrote and saved for the   *)
(* project, with deleted_blobs empty; the request is sent once per attempt *)
(* of the retry policy, three times at most; when a response arrives the   *)
(* call returns its formatted text, or the no-results message when the     *)
(* text is empty.                                                          *)
(***************************************************************************)
C12_RetrievalRequest ==
  \A c \in Slots :
    LET cr == calls[c] IN
    (cr.pc = "querying" \/ cr.sentQ > 0) =>
      /\ cr.save = "ok"
      /\ cr.qBlobs = cr.unchanged \o cr.uploaded
      /\ cr.qBlobs = cr.persisted
      /\ cr.qDeleted = <<>>
      /\ cr.sentQ \in 1..SearchMaxRetries
      /\ cr.pc = "querying" =>
           /\ cr.retry.maxRetries = SearchMaxRetries
           /\ cr.sentQ = cr.retry.tries
           /\ ~cr.qReply.got
      /\ cr.qReply.got =>
           /\ cr.pc = "done"
           /\ cr.out = TextString(IF cr.qReply.text = "" THEN NoResultsMessage
                                  ELSE cr.qReply.text)

\* the third attempt of a request was answered with an empty text, after a
\* pass that persisted fewer hashes than it collected blobs
C12_Witness ==
  \E c \in Slots :
    /\ calls[c].sentQ = 3
    /\ calls[c].qReply = Reply("")
    /\ calls[c].out = TextString(NoResultsMessage)
    /\ calls[c].index.status = "partial_success"
    /\ Len(calls[c].qBlobs) < Len(calls[c].blobs)

(***************************************************************************)
(* Two passes side by side.                                                *)
(***************************************************************************)
\* the list a pass writes under its project in step 6
Wrote(cr) == cr.unchanged \o cr.uploaded

\* two passes were started, the second while the first was running, and
\* both have returned
BothPassesDone ==
  /\ Slots = {1, 2}
  /\ nStarted = 2
  /\ \A c \in Slots : calls[c].pc = "done" /\ IndexReturned(calls[c])

\* of the two passes on project p, the one whose save succeeded last
LastSaver(p) ==
  LET l == last[p].slot IN
  IF calls[l].save = "ok" THEN l ELSE 3 - l

(***************************************************************************)
(* C13: after two passes on the same project that ran side by side, the    *)
(* record of the project in the state file is exactly the list written by  *)
(* the pass whose save succeeded last: that pass's unchanged hashes        *)
(* followed by the names it uploaded, all of them identifiers of blobs it  *)
(* collected itself.                                                       *)
(***************************************************************************)
C13_LastWriterWins ==
  (BothPassesDone /\ calls[1].proj = calls[2].proj /\ store.kind = "ok") =>
    LET p == calls[1].proj
        w == LastSaver(p)
    IN calls[w].save = "ok" =>
         /\ store.map[p] = Wrote(calls[w])
         /\ Range(store.map[p]) \subseteq DistinctHashes(calls[w].blobs)

\* the pass that saved first had written a hash the last writer did not
C13_Witness ==
  /\ BothPassesDone
  /\ calls[1].proj = calls[2].proj
  /\ calls[1].save = "ok" /\ calls[2].save = "ok"
  /\ store.kind = "ok"
  /\ LET p == calls[1].proj
         w == LastSaver(p)
     IN /\ store.map[p] = Wrote(calls[w])
        /\ Range(Wrote(calls[3 - w])) \ Range(store.map[p]) # {}
        /\ calls[w].existing = <<>>
        /\ calls[3 - w].existing = <<>>

(***************************************************************************)
(* C19: after two passes on two different projects that ran side by side   *)
(* and both saved, the state file holds for each project the list its pass *)
(* wrote.                                                                  *)
(***************************************************************************)
C19_NoLostRecord ==
  (/\ BothPassesDone
   /\ calls[1].proj # calls[2].proj
   /\ calls[1].save = "ok" /\ calls[2].save = "ok"
   /\ store.kind = "ok") =>
    \A c \in Slots : store.map[calls[c].proj] = Wrote(calls[c])

(***************************************************************************)
(* C14: for every list of collected blobs and every stored list, with      *)
(* S_curr the identifiers of the blobs and S_prev the stored identifiers,  *)
(* the diff yields unchanged = S_prev \cap S_curr, new = S_curr \ S_prev;   *)
(* the two are disjoint, neither repeats an identifier, and together they  *)
(* are exactly S_curr.                                                     *)
(***************************************************************************)
NoRepeats(seq) == Cardinality(Range(seq)) = Len(seq)

C14_DiffPartition ==
  (pf.fn = "diff" /\ pf.done) =>
    LET S_prev == Range(pf.stored)
        S_curr == DistinctHashes(pf.blobs)
        unchanged == pf.res.unchangedHashes
        new == pf.res.newHashes
    IN /\ Range(unchanged) = S_prev \cap S_curr
       /\ Range(new) = S_curr \ S_prev
       /\ Range(unchanged) \cap Range(new) = {}
       /\ NoRepeats(unchanged)
       /\ NoRepeats(new)
       /\ Range(unchanged) \cup Range(new) = S_curr

\* blobs that repeat an identifier, some stored, some new, one stored
\* identifier no longer current
C14_Witness ==
  /\ pf.fn = "diff"
  /\ pf.done
  /\ Cardinality(DistinctHashes(pf.blobs)) < Len(pf.blobs)
  /\ pf.res.unchangedHashes # <<>>
  /\ pf.res.newHashes # <<>>
  /\ Range(pf.stored) \ DistinctHashes(pf.blobs) # {}

(***************************************************************************)
(* C15: the hash of a (path, content) pair is the same each time, and two  *)
(* pairs that differ in path or in content get different identifiers.      *)
(***************************************************************************)
C15_HashInjective ==
  (pf.fn = "hash" /\ pf.done) =>
    /\ pf.ha = calculateHash(pf.a.path, pf.a.content)
    /\ pf.a = pf.b => pf.ha = pf.hb
    /\ pf.a # pf.b => pf.ha # pf.hb

(***************************************************************************)
(* C16: splitFileContent with maxLinesPerBlob a positive integer.  A file  *)
(* of at most maxLinesPerBlob lines yields one blob with the path and the  *)
(* content of the file; a longer file yields n = ceil(totalLines /         *)
(* maxLinesPerBlob) blobs, blob i named <path>#chunk<i>of<n>, each of at   *)
(* most maxLinesPerBlob lines, and the lines of the chunks in order are    *)
(* the lines of the file.                                                  *)
(***************************************************************************)
C16_SplitFileContent ==
  (pf.fn = "split" /\ pf.done) =>
    LET lines == split(pf.content)
        totalLines == Len(lines)
        max == config.maxLinesPerBlob
        n == Ceil(totalLines, max)
        blobs == pf.res
    IN /\ totalLines <= max => blobs = <<File(pf.path, pf.content)>>
       /\ totalLines > max =>
            /\ Len(blobs) = n
            /\ \A i \in 1..n :
                 /\ blobs[i].path =
                      pf.path \o "#chunk" \o ToString(i) \o "of" \o ToString(n)
                 /\ Len(split(blobs[i].content)) <= max
                 /\ Len(split(blobs[i].content)) >= 1
            /\ Concat([i \in 1..n |-> split(blobs[i].content)]) = lines
            /\ join([i \in 1..n |-> blobs[i].content]) = pf.content

\* five lines, one of them empty, in three chunks of two, two and one line
C16_Witness ==
  /\ pf.fn = "split"
  /\ pf.done
  /\ config.maxLinesPerBlob = 2
  /\ Len(split(pf.content)) = 5
  /\ Len(pf.res) = 3
  /\ pf.res[3].path = "f.c#chunk3of3"
  /\ Len(split(pf.res[3].content)) = 1
  /\ \E i \in 1..5 : split(pf.content)[i] = <<>>

(***************************************************************************)
(* C17: in a pass the blobs to upload are cut, in order, into              *)
(* ceil(count / batchSize) batches of 1 to batchSize blobs, each blob in   *)
(* exactly one batch; the batches are handed to the upload one after the   *)
(* other in ordinal order: at most one batch of the pass is unfinished at  *)
(* any time, with one request of it in flight or its backoff timer         *)
(* running, and a batch is started only when all batches before it have    *)
(* succeeded or failed for good.                                           *)
(***************************************************************************)
C17_SequentialBatches ==
  \A c \in Slots :
    LET cr == calls[c]
        sent == Len(cr.sentUp)
        finished == Len(cr.batchLog)
        sentBlobs == Concat(cr.sentBatches)
    IN cr.pc # "idle" =>
         /\ cr.sentUp = Ordinals(sent)
         /\ Len(cr.sentBatches) = sent
         /\ sent <= Ceil(Len(cr.toUpload), config.batchSize)
         /\ \A k \in 1..sent :
              /\ Len(cr.sentBatches[k]) \in 1..config.batchSize
              /\ k < sent => Len(cr.sentBatches[k]) = config.batchSize
         /\ sentBlobs = SubSeq(cr.toUpload, 1, Len(sentBlobs))
         /\ [k \in 1..finished |-> cr.batchLog[k].ord] = Ordinals(finished)
         /\ finished \in {sent - 1, sent}
         /\ finished = sent - 1 <=> cr.pc = "indexing"
         /\ cr.pc = "indexing" =>
              /\ cr.retry.st \in {"inflight", "waiting"}
              /\ cr.retry.tries \in 1..UploadMaxRetries
              /\ cr.batchIdx = sent - 1
         /\ (IndexReturned(cr) /\ cr.blobs # <<>>) =>
              /\ sent = Ceil(Len(cr.toUpload), config.batchSize)
              /\ sentBlobs = cr.toUpload

\* three new blobs went out as a batch of two, which failed, and then a
\* batch of one, which succeeded
C17_Witness ==
  \E c \in Slots :
    /\ IndexReturned(calls[c])
    /\ Len(calls[c].toUpload) = 3
    /\ Len(calls[c].sentBatches) = 2
    /\ Len(calls[c].sentBatches[1]) = 2
    /\ Len(calls[c].sentBatches[2]) = 1
    /\ calls[c].batchLog[1].names = <<>>
    /\ calls[c].batchLog[2].names # <<>>

NothingToIndex(cr) ==
  /\ cr.index.status = "error"
  /\ cr.index.message \in {RootMissingMessage, NoFilesMessage}

C20_NothingToIndexLeavesStore ==
  [][\A c \in SlotIds :
       (c \in Slots /\ calls[c]' # calls[c] /\ NothingToIndex(calls[c]')) =>
         /\ store' = store
         /\ calls[c]'.sentUp = <<>>
         /\ calls[c]'.save = "none"
         /\ calls[c]'.pc = "done"
         /\ calls[c]'.op = "indexProject" =>
              calls[c]'.out = ResultOut(calls[c]'.index)
         /\ calls[c]'.op \in SearchOps =>
              /\ calls[c]'.out.prefix = "Error: "
              /\ calls[c]'.sentQ = 0]_vars

\* a searchContext call found the project without files after a pass had
\* persisted a record of it: the record is still in the file
C20_Witness ==
  \E c \in Slots :
    /\ calls[c].op = "searchContext"
    /\ NothingToIndex(calls[c])
    /\ calls[c].index.message = NoFilesMessage
    /\ calls[c].prev.status = "success"
    /\ calls[c].prev.persisted # <<>>
    /\ store.kind = "ok"
    /\ store.map[calls[c].proj] = calls[c].prev.persisted

(***************************************************************************)
(* C21: every call that has started returns, when every request is         *)
(* answered or times out and every timer fires; a pass with n blobs to     *)
(* upload sends at most 3 * ceil(n / batchSize) batch-upload requests, at  *)
(* most 3 for each batch, and a search sends at most 3 retrieval requests, *)
(* all of them after its indexing pass returned.                           *)
(***************************************************************************)
C21_Caps ==
  \A c \in Slots :
    LET cr == calls[c] IN
    /\ cr.upAttempts <= UploadMaxRetries * Ceil(Len(cr.toUpload), config.batchSize)
    /\ cr.upAttempts <= UploadMaxRetries * Len(cr.sentUp)
    /\ cr.upAttempts >= Len(cr.sentUp)
    /\ cr.indexCalls <= 1
    /\ cr.sentQ <= SearchMaxRetries
    /\ cr.sentQ > 0 => IndexReturned(cr)
    /\ cr.pc \in {"indexing", "querying"} => cr.retry.tries <= cr.retry.maxRetries
    /\ cr.pc = "done" => cr.retry.st = "none"

C21_Terminates ==
  /\ []C21_Caps
  /\ \A c \in SlotIds :
       (c \in Slots /\ calls[c].pc \in {"indexing", "querying"})
         ~> (c \in Slots /\ calls[c].pc = "done")

\* a searchContext call whose only batch went through on the third request
\* and whose retrieval was answered on the third request
C21_Witness ==
  \E c \in Slots :
    /\ calls[c].pc = "done"
    /\ calls[c].op = "searchContext"
    /\ Len(calls[c].sentUp) = 1
    /\ calls[c].upAttempts = 3
    /\ calls[c].sentQ = 3
    /\ calls[c].qReply.got

(***************************************************************************)
(* C22: in every IndexResult with status success or partial_success,       *)
(* totalBlobs = existingBlobs + newBlobs, skippedBlobs = existingBlobs,    *)
(* totalBlobs is the length of the record just persisted for the project,  *)
(* and with status success totalBlobs is the number of blobs collected.    *)
(***************************************************************************)
\* the indexProject calls that returned a result with statistics
Indexed(cr) ==
  /\ cr.op = "indexProject"
  /\ cr.pc = "done"
  /\ cr.index.status \in {"success", "partial_success"}

StatsAddUp(cr) ==
  /\ cr.index.hasStats
  /\ cr.index.stats.totalBlobs
       = cr.index.stats.existingBlobs + cr.index.stats.newBlobs
  /\ cr.index.stats.skippedBlobs = cr.index.stats.existingBlobs

StatsMatchRecord(cr) == cr.index.stats.totalBlobs = Len(cr.persisted)

StatsMatchCollected(cr) ==
  cr.index.status = "success" => cr.index.stats.totalBlobs = Len(cr.blobs)

C22_StatsConsistent ==
  \A c \in Slots :
    Indexed(calls[c]) =>
      /\ StatsAddUp(calls[c])
      /\ StatsMatchRecord(calls[c])
      /\ StatsMatchCollected(calls[c])

\* what holds of the statistics: the sums, the persisted record, and with
\* status success the number of distinct identifiers collected
StatsOfDistinct ==
  \A c \in Slots :
    Indexed(calls[c]) =>
      /\ StatsAddUp(calls[c])
      /\ StatsMatchRecord(calls[c])
      /\ calls[c].index.status = "success" =>
           calls[c].index.stats.totalBlobs
             = Cardinality(DistinctHashes(calls[c].blobs))

====
